---------------------------- MODULE Spec2Model ----------------------------
(***************************************************************************)
(* A model of redistribute_hours_by_earning (App_Timesheet_Autofill_Tool): *)
(* the reallocation of the hours of "virtual" project codes onto the       *)
(* selected "real" project codes, the rounding to quarter hours and the    *)
(* day-by-day, earning-by-earning repair of the totals.                    *)
(*                                                                         *)
(* Hours are integers counting thousandths of an hour, so that the         *)
(* tolerance 0.001 of the source is 1 and a quarter hour is 250.  Between  *)
(* allocation and rounding the source holds unrounded floating values      *)
(* orig + sum(virtual * weight); every weight has the same denominator     *)
(* (the sum of the target rows' totals, or the number of target rows), so  *)
(* the model holds those values exactly, as numerators over WeightDen.     *)
(*                                                                         *)
(* The identity columns Project ID, Activity ID and Award ID are only ever *)
(* used together (as group-by keys), except for the test of Project ID     *)
(* against the reserved identifier; the field ProjectID stands for the     *)
(* three of them.                                                          *)
(*                                                                         *)
(* The date columns are the columns whose name holds '2024-' or '2025-'    *)
(* (line 659); Dates numbers them in the order of the file.  The reading   *)
(* of the ledger and the writing of the result are taken to succeed.       *)
(***************************************************************************)
EXTENDS Integers, Sequences, FiniteSets, TLC

VARIABLES
    pc,                    \* position in redistribute_hours_by_earning
    ledger,                \* the rows read from 02-Deltek.csv (never modified)
    prorate_dict,          \* load_prorate_data's result: Code -> 0/1 (partial)
    project_selections,    \* the selection window's result: Code -> bool (partial)
    df_deltek,             \* ledger rows with the Prorate column
    df_virtual,
    df_real,
    df_excepted,
    df_real_selected,
    df_real_not_selected,
    df_real_selected_original,
    df_result,
    vi,                    \* next row of df_virtual to process
    prorate_summary,       \* Earning -> Date -> hours, taken once after rounding
    cell,                  \* <<earning index, date>> of the next cell to validate
    log,                   \* the warnings printed so far, in order
    output_file,           \* the contents of output_path
    database_updated,      \* the global flag of line 102
    call,                  \* position of each call of Update_DataBase_With_BoxFile
    db_writes,             \* how many times the database workbook was saved
    flag_resets            \* how many times the flag was reset

\* the variables of redistribute_hours_by_earning
runvars == <<pc, ledger, prorate_dict, project_selections, df_deltek,
             df_virtual, df_real, df_excepted, df_real_selected,
             df_real_not_selected, df_real_selected_original, df_result, vi,
             prorate_summary, cell, log, output_file>>

\* the variables of the database update
dbvars == <<database_updated, call, db_writes, flag_resets>>

vars == <<runvars, dbvars>>

-----------------------------------------------------------------------------
(* Bounds of the model and constants of the program *)

MaxRows == 3
NumDates == 2
NumCalls == 3
MaxResets == 1

Quarter == 250
Tolerance == 1

Dates == 1..NumDates

\* Values in their sort order (group-by sorts its keys).
CodeOrder == <<"ADMIN", "PRJ-A", "PRJ-B">>
ProjectOrder == <<"P100001", "P200", "P300">>
EarningOrder == <<"1", "V">>

ReservedProjectID == "P100001"
RegularEarning == "1"
\* Earning codes that read_csv parses as numbers when no row of the column
\* holds a letter code.
NumericEarnings == {"1"}


RangeOf(s) == {s[i] : i \in 1..Len(s)}
Codes == RangeOf(CodeOrder)
ProjectIDs == RangeOf(ProjectOrder)
Earnings == RangeOf(EarningOrder)

Abs(x) == IF x < 0 THEN -x ELSE x

\* Sum of f[d] over the dates
RECURSIVE SumDates(_, _)
SumDates(f, n) == IF n = 0 THEN 0 ELSE f[n] + SumDates(f, n - 1)

\* Python's round(): to the nearest integer, a tie going to the even one.
\* The value rounded is n/d (d > 0).
RoundHalfEven(n, d) ==
    LET q == n \div d
        r == n % d
    IN  IF 2 * r < d THEN q
        ELSE IF 2 * r > d THEN q + 1
        ELSE IF q % 2 = 0 THEN q ELSE q + 1

\* lambda x: round(x * 4) / 4, for the value x = n/d thousandths of an hour
RoundToQuarter(n, d) == Quarter * RoundHalfEven(n, d * Quarter)

-----------------------------------------------------------------------------
(* Rows and frames.  A frame is a sequence of rows; a row of the ledger is *)
(* [Code, ProjectID, Earning, h] with h the hours of each date; the        *)
(* program adds the columns Prorate and Redistribute_Target.               *)

LedgerRow(c, p, e, h) == [Code |-> c, ProjectID |-> p, Earning |-> e, h |-> h]

Identity(r) == <<r.Code, r.ProjectID, r.Earning>>

\* df[date_columns].sum(axis=1) for one row
TotalHours(r) == SumDates(r.h, NumDates)

\* df.groupby('Earning')[date_columns].sum(), one cell of it
RECURSIVE EarningSum(_, _, _)
EarningSum(df, e, d) ==
    IF df = <<>> THEN 0
    ELSE (IF Head(df).Earning = e THEN Head(df).h[d] ELSE 0)
         + EarningSum(Tail(df), e, d)

\* the index of such a summary: the earnings present, sorted
EarningIndex(df) ==
    SelectSeq(EarningOrder, LAMBDA e : \E i \in 1..Len(df) : df[i].Earning = e)

\* read_csv gives the Earning column text values only if some row holds a
\* code that is not a number; otherwise the column holds integers, and the
\* integer 1 is not equal to the string '1'.
EarningColumnIsText(df) ==
    \E i \in 1..Len(df) : df[i].Earning \notin NumericEarnings

-----------------------------------------------------------------------------
(* Classification (lines 650-672) *)

\* Mutant: a code the table does not list is taken to be prorated.
MapProrate_DefaultVirtual(dict, r) ==
    IF r.Code \in DOMAIN dict THEN dict[r.Code] ELSE 1

\* df_deltek['Code'].map(prorate_dict).fillna(0).astype(int), for one row
MapProrate(dict, r) ==
    IF r.Code \in DOMAIN dict THEN dict[r.Code] ELSE 0

\* Mutant: the reserved project only marks the rows whose code is not
\* prorated; the flag 1 of the table is kept.
MarkExcepted_KeepFlag(r, flag) ==
    IF r.ProjectID = ReservedProjectID /\ flag # 1 THEN -1 ELSE flag

\* df_deltek.loc[df_deltek['Project ID'] == 'P100001', 'Prorate'] = -1
MarkExcepted(r, flag) ==
    IF r.ProjectID = ReservedProjectID THEN -1 ELSE flag

\* Mutant: the flags are assigned by position, one row late: a row gets the
\* flag of the row before it, and the first row the flag 0.
WithProrate_Shifted(dict, df) ==
    [i \in 1..Len(df) |->
        [Code |-> df[i].Code, ProjectID |-> df[i].ProjectID,
         Earning |-> df[i].Earning, h |-> df[i].h,
         Prorate |-> IF i = 1 THEN 0
                     ELSE MarkExcepted(df[i - 1], MapProrate(dict, df[i - 1]))]]

WithProrate(dict, df) ==
    [i \in 1..Len(df) |->
        [Code |-> df[i].Code, ProjectID |-> df[i].ProjectID,
         Earning |-> df[i].Earning, h |-> df[i].h,
         Prorate |-> MarkExcepted(df[i], MapProrate(dict, df[i]))]]

\* Mutant: the real rows are taken to be all the rows that are not virtual.
WhereProrate_NotVirtual(df, flag) ==
    IF flag = 0 THEN SelectSeq(df, LAMBDA r : r.Prorate # 1)
    ELSE SelectSeq(df, LAMBDA r : r.Prorate = flag)

\* df_deltek[df_deltek['Prorate'] == flag]
WhereProrate(df, flag) == SelectSeq(df, LAMBDA r : r.Prorate = flag)

\* Mutant: the run goes on with nothing to redistribute to.
NothingToRedistribute_Never(df) == FALSE

\* len(df) == 0: the test that ends the run when there is no real row
\* (line 678) or no selected row (line 713)
NothingToRedistribute(df) == Len(df) = 0

-----------------------------------------------------------------------------
(* Target selection (lines 702-711) *)

\* Mutant: a code without a decision is left out of the redistribution.
MapSelection_DefaultFalse(sel, r) ==
    IF r.Code \in DOMAIN sel THEN sel[r.Code] ELSE FALSE

\* df_real['Code'].map(project_selections).fillna(True).astype(bool), one row
MapSelection(sel, r) ==
    IF r.Code \in DOMAIN sel THEN sel[r.Code] ELSE TRUE

WithTarget(sel, df) ==
    [i \in 1..Len(df) |->
        [Code |-> df[i].Code, ProjectID |-> df[i].ProjectID,
         Earning |-> df[i].Earning, h |-> df[i].h, Prorate |-> df[i].Prorate,
         Redistribute_Target |-> MapSelection(sel, df[i])]]

WhereTarget(df, b) == SelectSeq(df, LAMBDA r : r.Redistribute_Target = b)

-----------------------------------------------------------------------------
(* get_distribution_weights (lines 390-412): the weight of row i of df is  *)
(* WeightNum(df, i) / WeightDen(df).                                       *)

RECURSIVE TotalSum(_)
TotalSum(df) == IF df = <<>> THEN 0 ELSE TotalHours(Head(df)) + TotalSum(Tail(df))

WeightDen(df) == IF TotalSum(df) = 0 THEN Len(df) ELSE TotalSum(df)

\* Mutant: the weight of a row is taken from its hours of the first date
\* only, not from its total over the dates.
WeightNum_FirstDate(df, i) == IF TotalSum(df) = 0 THEN 1 ELSE df[i].h[1]

WeightNum(df, i) == IF TotalSum(df) = 0 THEN 1 ELSE TotalHours(df[i])

-----------------------------------------------------------------------------
(* Allocation (lines 724-766).  The hours of df_result are numerators over *)
(* WeightDen(df_real_selected) until they are rounded.                     *)

ScaleRows(df, k) ==
    [i \in 1..Len(df) |-> [df[i] EXCEPT !.h = [d \in Dates |-> k * df[i].h[d]]]]

\* Mutant: the share goes to the last row of the result with that Code.
FirstWithCode_Last(df, code) ==
    CHOOSE i \in 1..Len(df) :
        /\ df[i].Code = code
        /\ \A j \in (i + 1)..Len(df) : df[j].Code # code

\* df_result[df_result['Code'] == code].index[0]
FirstWithCode(df, code) ==
    CHOOSE i \in 1..Len(df) :
        /\ df[i].Code = code
        /\ \A j \in 1..(i - 1) : df[j].Code # code

\* Mutant: no earning is taken to be the regular one, so every virtual row
\* is given rows of its own.
IsRegular_Never(earning, textColumn) == FALSE

\* earning_type == '1'
IsRegular(earning, textColumn) == textColumn /\ earning = RegularEarning

\* Lines 736-746: each selected real row's share is added to the first row
\* of the result that carries that row's Code.
RECURSIVE AddRegular(_, _, _, _)
AddRegular(res, sel, v, i) ==
    IF i > Len(sel) THEN res
    ELSE LET k == FirstWithCode(res, sel[i].Code)
             w == WeightNum(sel, i)
         IN  AddRegular(
                 [res EXCEPT ![k].h = [d \in Dates |-> res[k].h[d] + v.h[d] * w]],
                 sel, v, i + 1)

\* Mutant: the rows appended keep the earning of the selected row they are
\* copied from.
RECURSIVE AppendShares_KeepEarning(_, _, _, _)
AppendShares_KeepEarning(res, sel, v, i) ==
    IF i > Len(sel) THEN res
    ELSE AppendShares_KeepEarning(
             Append(res, [sel[i] EXCEPT !.h = [d \in Dates |-> v.h[d] * WeightNum(sel, i)]]),
             sel, v, i + 1)

\* Lines 750-766: a copy of each selected real row, with the earning of the
\* virtual row and its share of the hours, is appended to the result.
RECURSIVE AppendShares(_, _, _, _)
AppendShares(res, sel, v, i) ==
    IF i > Len(sel) THEN res
    ELSE AppendShares(
             Append(res, [sel[i] EXCEPT !.Earning = v.Earning,
                                        !.h = [d \in Dates |-> v.h[d] * WeightNum(sel, i)]]),
             sel, v, i + 1)

AllocateRow(res, sel, v, textColumn) ==
    IF IsRegular(v.Earning, textColumn)
    THEN AddRegular(res, sel, v, 1)
    ELSE AppendShares(res, sel, v, 1)

-----------------------------------------------------------------------------
(* Merge and rounding (lines 768-774) *)

\* every value of the group-by key, in the order group-by sorts them; the
\* columns Prorate and Redistribute_Target are 0 and True in every row of
\* the result, so the key is the identity
AllKeys ==
    [n \in 1..(Len(CodeOrder) * Len(ProjectOrder) * Len(EarningOrder)) |->
        <<CodeOrder[((n - 1) \div (Len(ProjectOrder) * Len(EarningOrder))) + 1],
          ProjectOrder[(((n - 1) \div Len(EarningOrder)) % Len(ProjectOrder)) + 1],
          EarningOrder[((n - 1) % Len(EarningOrder)) + 1]>>]

RECURSIVE KeySum(_, _, _)
KeySum(df, key, d) ==
    IF df = <<>> THEN 0
    ELSE (IF Identity(Head(df)) = key THEN Head(df).h[d] ELSE 0)
         + KeySum(Tail(df), key, d)

\* Mutant: of the rows with the same key the first is kept and the others
\* are dropped.
GroupBySum_KeepFirst(df) ==
    LET present == SelectSeq(AllKeys,
                       LAMBDA k : \E i \in 1..Len(df) : Identity(df[i]) = k)
    IN  [n \in 1..Len(present) |->
            [Code |-> present[n][1], ProjectID |-> present[n][2],
             Earning |-> present[n][3], Prorate |-> 0,
             Redistribute_Target |-> TRUE,
             h |-> SelectSeq(df, LAMBDA r : Identity(r) = present[n])[1].h]]

\* df_result.groupby(groupby_columns, as_index=False)[date_columns].sum()
GroupBySum(df) ==
    LET present == SelectSeq(AllKeys,
                       LAMBDA k : \E i \in 1..Len(df) : Identity(df[i]) = k)
    IN  [n \in 1..Len(present) |->
            [Code |-> present[n][1], ProjectID |-> present[n][2],
             Earning |-> present[n][3], Prorate |-> 0,
             Redistribute_Target |-> TRUE,
             h |-> [d \in Dates |-> KeySum(df, present[n], d)]]]

\* df_result[date_columns].applymap(lambda x: round(x * 4) / 4)
RoundRows(df, den) ==
    [i \in 1..Len(df) |->
        [df[i] EXCEPT !.h = [d \in Dates |-> RoundToQuarter(df[i].h[d], den)]]]

\* df.groupby('Earning')[date_columns].sum()
Summary(df) ==
    [e \in RangeOf(EarningIndex(df)) |-> [d \in Dates |-> EarningSum(df, e, d)]]

-----------------------------------------------------------------------------
(* Validation and adjustment of one (earning, date) cell (lines 797-912) *)

\* Mutant: the rows of every earning are taken to belong to the cell.
RowsWithEarning_All(df, e) == [i \in 1..Len(df) |-> i]

\* the rows of df whose Earning is e, as indices, in order
RowsWithEarning(df, e) ==
    SelectSeq([i \in 1..Len(df) |-> i], LAMBDA i : df[i].Earning = e)

\* sort_values(ascending=False) of the indices by key[i].  The sort is the
\* library's default one, which is not a stable sort: the order of rows
\* with equal keys is the library's choice, so the result is any of the
\* descending orders.
SortDesc(order, key) ==
    {p \in [1..Len(order) -> RangeOf(order)] :
        /\ \A i, j \in 1..Len(order) : p[i] = p[j] => i = j
        /\ \A i \in 1..(Len(order) - 1) : key[p[i]] >= key[p[i + 1]]}

\* Lines 822-831: the hours before redistribution of the first row of the
\* original selected rows with this Code and Earning, 0 if there is none
OriginalHoursOf(orig, code, e, d) ==
    LET match == SelectSeq(orig, LAMBDA r : r.Code = code /\ r.Earning = e)
    IN  IF Len(match) > 0 THEN match[1].h[d] ELSE 0

\* Mutant: every row of the earning is taken to have received the whole of
\* the cell's current hours, so the floor of a row is not its own baseline.
ProrateDiffs_CellTotal(res, orig, e, d) ==
    [i \in RangeOf(RowsWithEarning(res, e)) |-> EarningSum(res, e, d)]

\* Lines 817-836: hours each row of the earning received from the prorate
ProrateDiffs(res, orig, e, d) ==
    [i \in RangeOf(RowsWithEarning(res, e)) |->
        res[i].h[d] - OriginalHoursOf(orig, res[i].Code, e, d)]

\* Mutant: hours are added to the first row of the earning in the order of
\* the frame, not to the row with the most hours.
Candidates_FrameOrder(res, orig, e, d, difference) ==
    IF difference > 0
    THEN {RowsWithEarning(res, e)}
    ELSE LET diffs == ProrateDiffs(res, orig, e, d)
         IN  SortDesc(SelectSeq(RowsWithEarning(res, e),
                                LAMBDA i : diffs[i] > Tolerance),
                      diffs)

\* Lines 807-847: the rows to adjust, in the orders they can be visited in
Candidates(res, orig, e, d, difference) ==
    IF difference > 0
    THEN SortDesc(RowsWithEarning(res, e), [i \in 1..Len(res) |-> res[i].h[d]])
    ELSE LET diffs == ProrateDiffs(res, orig, e, d)
         IN  SortDesc(SelectSeq(RowsWithEarning(res, e),
                                LAMBDA i : diffs[i] > Tolerance),
                      diffs)

\* Mutant: the adjusted value is not rounded.
SetHours_NoRound(res, i, d, x) == [res EXCEPT ![i].h[d] = x]

SetHours(res, i, d, x) == [res EXCEPT ![i].h[d] = RoundToQuarter(x, 1)]

\* Mutant: a row that received more than is to be taken back gives back all
\* it received.
RECURSIVE AdjustLoop_TakeAll(_, _, _, _, _, _)
AdjustLoop_TakeAll(order, res, d, remaining, made, diffs) ==
    IF order = <<>> \/ Abs(remaining) < Tolerance
    THEN [res |-> res, remaining |-> remaining, made |-> made]
    ELSE LET i == Head(order) IN
         IF remaining > 0
         THEN [res |-> SetHours(res, i, d, res[i].h[d] + remaining),
               remaining |-> 0, made |-> TRUE]
         ELSE IF diffs[i] >= Abs(remaining)
         THEN [res |-> SetHours(res, i, d, res[i].h[d] - diffs[i]),
               remaining |-> 0, made |-> TRUE]
         ELSE IF diffs[i] > 0
         THEN AdjustLoop_TakeAll(Tail(order),
                                 SetHours(res, i, d, res[i].h[d] - diffs[i]),
                                 d, remaining + diffs[i], TRUE, diffs)
         ELSE AdjustLoop_TakeAll(Tail(order), res, d, remaining, made, diffs)

\* Lines 853-906: the loop over the candidates.  The result is the frame,
\* the difference still pending and whether an adjustment was made.
RECURSIVE AdjustLoop(_, _, _, _, _, _)
AdjustLoop(order, res, d, remaining, made, diffs) ==
    IF order = <<>> \/ Abs(remaining) < Tolerance
    THEN [res |-> res, remaining |-> remaining, made |-> made]
    ELSE LET i == Head(order) IN
         IF remaining > 0
         THEN [res |-> SetHours(res, i, d, res[i].h[d] + remaining),
               remaining |-> 0, made |-> TRUE]
         ELSE IF diffs[i] >= Abs(remaining)
         THEN [res |-> SetHours(res, i, d, res[i].h[d] - Abs(remaining)),
               remaining |-> 0, made |-> TRUE]
         ELSE IF diffs[i] > 0
         THEN AdjustLoop(Tail(order),
                         SetHours(res, i, d, res[i].h[d] - diffs[i]),
                         d, remaining + diffs[i], TRUE, diffs)
         ELSE AdjustLoop(Tail(order), res, d, remaining, made, diffs)

\* original_summary.loc[earning, date_col] - prorate_summary.loc[earning, date_col]
Difference(virt, sel, summary, e, d) ==
    (EarningSum(virt, e, d) + EarningSum(sel, e, d)) - summary[e][d]

\* Mutant: a warning does not say which cell it is about.
Warning_NoCell(kind, e, d) == [kind |-> kind, earning |-> "", date |-> 0]

Warning(kind, e, d) == [kind |-> kind, earning |-> e, date |-> d]

\* Mutant: the adjustment is made but its warnings are not printed.
AdjustCell_Silent(res, orig, virt, sel, summary, e, d, order) ==
    LET difference == Difference(virt, sel, summary, e, d) IN
    IF Abs(difference) > Tolerance
    THEN LET diffs == IF difference > 0
                      THEN [i \in {} |-> 0]
                      ELSE ProrateDiffs(res, orig, e, d)
         IN  [res |-> AdjustLoop(order, res, d, difference, FALSE, diffs).res,
              warnings |-> <<>>]
    ELSE [res |-> res, warnings |-> <<>>]

\* The whole body of the loop over the dates for one cell, the candidates
\* being visited in the given order: the new frame and the warnings printed.
AdjustCell(res, orig, virt, sel, summary, e, d, order) ==
    LET difference == Difference(virt, sel, summary, e, d) IN
    IF Abs(difference) > Tolerance
    THEN LET diffs == IF difference > 0
                      THEN [i \in {} |-> 0]
                      ELSE ProrateDiffs(res, orig, e, d)
             out   == AdjustLoop(order, res, d, difference, FALSE, diffs)
         IN  [res |-> out.res,
              warnings |->
                  (IF difference < 0 /\ order = <<>>
                   THEN <<Warning("no_positive_prorate_diff", e, d)>> ELSE <<>>)
                  \o (IF ~out.made THEN <<Warning("could_not_adjust", e, d)>>
                      ELSE IF Abs(out.remaining) > Tolerance
                      THEN <<Warning("partial_adjustment", e, d)>>
                      ELSE <<>>)]
    ELSE [res |-> res, warnings |-> <<>>]

-----------------------------------------------------------------------------
(* The final ledger (lines 919-946) *)

\* Mutant: the auxiliary columns are left in the frame that is written.
DropAux_KeepAux(df) == df
DropAux(df) ==
    [i \in 1..Len(df) |->
        LedgerRow(df[i].Code, df[i].ProjectID, df[i].Earning, df[i].h)]

\* Mutant: the rounding is applied to the final ledger, after the rows that
\* were set aside have been put back.
FinalLedger_RoundAll(res, notSelected, excepted) ==
    DropAux(RoundRows(res \o notSelected \o excepted, 1))

FinalLedger(res, notSelected, excepted) ==
    DropAux(res \o notSelected \o excepted)

-----------------------------------------------------------------------------
(* Inputs *)

\* Hours as the ledger can hold them: quarter hours (what generate_report
\* writes) and a value that is no multiple of a quarter (the ledger is a
\* file of decimals).
QuarterHours == Quarter
HalfHours == 2 * Quarter
OddHours == 130

\* A row has hours on at most one date; the odd value only on the first.
HourRows ==
    {h \in [Dates -> {0, OddHours, QuarterHours}] :
        /\ Cardinality({d \in Dates : h[d] # 0}) <= 1
        /\ \A d \in Dates : h[d] = OddHours => d = 1}

\* The identities the rows are drawn from: a code with one row per earning,
\* a code with two projects, a code with the reserved project.
RowIdentities ==
    {<<"ADMIN", "P200", "1">>, <<"ADMIN", "P200", "V">>,
     <<"PRJ-A", "P200", "1">>, <<"PRJ-A", "P200", "V">>,
     <<"PRJ-A", "P300", "V">>,
     <<"PRJ-B", "P300", "1">>, <<"PRJ-B", "P100001", "V">>}

\* One identity can also hold a half hour on the second date.
RowChoices ==
    {LedgerRow(k[1], k[2], k[3], h) : k \in RowIdentities, h \in HourRows}
    \cup {LedgerRow("PRJ-A", "P300", "V", [d \in Dates |-> IF d = 2 THEN HalfHours ELSE 0])}

\* The ledgers of n rows: one row per identity.
Ledgers(n) ==
    {l \in [1..n -> RowChoices] :
        \A i, j \in 1..n : Identity(l[i]) = Identity(l[j]) => i = j}

\* what load_prorate_data can return: the empty dictionary when the file
\* cannot be read; else ADMIN is prorated, PRJ-A is not, and PRJ-B is
\* either or is not listed
ProrateTables ==
    {<<>>} \cup
    {t \in UNION {[S -> {0, 1}] : S \in {Codes, Codes \ {"PRJ-B"}}} :
        t["ADMIN"] = 1 /\ t["PRJ-A"] = 0}

\* what show_project_selection_window can leave in selection_result for the
\* real rows df: cancelled, or a flag for some or all of their codes
Selections(df) ==
    {[cancelled |-> TRUE, selections |-> <<>>]} \cup
    {[cancelled |-> FALSE, selections |-> f] :
        f \in UNION {[S -> BOOLEAN] : S \in SUBSET {df[i].Code : i \in 1..Len(df)}}}

\* the file at output_path before the run
PreviousOutput == <<LedgerRow("PRJ-A", "P200", "1", [d \in Dates |-> Quarter])>>

-----------------------------------------------------------------------------
(* The state machine *)

\* the calls of Update_DataBase_With_BoxFile of a session: from the threads
\* run_update_categories starts and from fill_deltek
Callers == 1..NumCalls

Init ==
    /\ pc = "classify"
    /\ \E n \in 1..MaxRows : ledger \in Ledgers(n)
    /\ prorate_dict = <<>>
    /\ project_selections = <<>>
    /\ df_deltek = ledger
    /\ df_virtual = <<>>
    /\ df_real = <<>>
    /\ df_excepted = <<>>
    /\ df_real_selected = <<>>
    /\ df_real_not_selected = <<>>
    /\ df_real_selected_original = <<>>
    /\ df_result = <<>>
    /\ vi = 1
    /\ prorate_summary = <<>>
    /\ cell = <<1, 1>>
    /\ log = <<>>
    /\ output_file = PreviousOutput
    /\ database_updated = FALSE
    /\ call = [t \in Callers |-> "idle"]
    /\ db_writes = 0
    /\ flag_resets = 0

\* Lines 644-680: load the prorate table, classify the rows, stop when there
\* is no table or no real row.
Classify ==
    /\ pc = "classify"
    /\ \E dict \in ProrateTables :
        /\ prorate_dict' = dict
        /\ IF dict = <<>>
           THEN /\ pc' = "aborted"
                /\ log' = Append(log, Warning("no_prorate_data", "", 0))
                /\ UNCHANGED <<df_deltek, df_virtual, df_real, df_excepted>>
           ELSE LET tagged == WithProrate(dict, df_deltek) IN
                /\ df_deltek' = tagged
                /\ df_virtual' = WhereProrate(tagged, 1)
                /\ df_real' = WhereProrate(tagged, 0)
                /\ df_excepted' = WhereProrate(tagged, -1)
                /\ IF NothingToRedistribute(WhereProrate(tagged, 0))
                   THEN /\ pc' = "aborted"
                        /\ log' = Append(log, Warning("no_real_projects", "", 0))
                   ELSE /\ pc' = "select"
                        /\ log' = log
    /\ UNCHANGED <<ledger, project_selections, df_real_selected,
                   df_real_not_selected, df_real_selected_original, df_result,
                   vi, prorate_summary, cell, output_file>>
    /\ UNCHANGED dbvars

\* Lines 682-722: ask for the selection, split the real rows, stop when the
\* selection is cancelled or selects nothing.
Select ==
    /\ pc = "select"
    /\ \E sel \in Selections(df_real) :
        /\ project_selections' = sel.selections
        /\ IF sel.cancelled
           THEN /\ pc' = "aborted"
                /\ log' = Append(log, Warning("cancelled", "", 0))
                /\ UNCHANGED <<df_real, df_real_selected, df_real_not_selected,
                               df_real_selected_original, df_result>>
           ELSE LET tagged == WithTarget(sel.selections, df_real)
                    selected == WhereTarget(tagged, TRUE)
                IN
                /\ df_real' = tagged
                /\ df_real_selected' = selected
                /\ df_real_not_selected' = WhereTarget(tagged, FALSE)
                /\ IF NothingToRedistribute(selected)
                   THEN /\ pc' = "aborted"
                        /\ log' = Append(log, Warning("no_projects_selected", "", 0))
                        /\ UNCHANGED <<df_real_selected_original, df_result>>
                   ELSE /\ pc' = "allocate"
                        /\ log' = log
                        /\ df_real_selected_original' = selected
                        /\ df_result' = ScaleRows(selected, WeightDen(selected))
    /\ UNCHANGED <<ledger, prorate_dict, df_deltek, df_virtual, df_excepted,
                   vi, prorate_summary, cell, output_file>>
    /\ UNCHANGED dbvars

\* Lines 725-766: one iteration of the loop over the virtual rows.
Allocate ==
    /\ pc = "allocate"
    /\ vi <= Len(df_virtual)
    /\ df_result' = AllocateRow(df_result, df_real_selected, df_virtual[vi],
                                EarningColumnIsText(df_deltek))
    /\ vi' = vi + 1
    /\ UNCHANGED <<pc, ledger, prorate_dict, project_selections, df_deltek,
                   df_virtual, df_real, df_excepted, df_real_selected,
                   df_real_not_selected, df_real_selected_original,
                   prorate_summary, cell, log, output_file>>
    /\ UNCHANGED dbvars

\* Lines 768-771: rows with the same identity are merged.
Merge ==
    /\ pc = "allocate"
    /\ vi > Len(df_virtual)
    /\ df_result' = GroupBySum(df_result)
    /\ pc' = "round"
    /\ UNCHANGED <<ledger, prorate_dict, project_selections, df_deltek,
                   df_virtual, df_real, df_excepted, df_real_selected,
                   df_real_not_selected, df_real_selected_original, vi,
                   prorate_summary, cell, log, output_file>>
    /\ UNCHANGED dbvars

\* Lines 773-787: the hours are rounded to quarters and the summary of the
\* result by earning is taken.
Round ==
    /\ pc = "round"
    /\ LET rounded == RoundRows(df_result, WeightDen(df_real_selected)) IN
        /\ df_result' = rounded
        /\ prorate_summary' = Summary(rounded)
    /\ cell' = <<1, 1>>
    /\ pc' = "validate"
    /\ UNCHANGED <<ledger, prorate_dict, project_selections, df_deltek,
                   df_virtual, df_real, df_excepted, df_real_selected,
                   df_real_not_selected, df_real_selected_original, vi, log,
                   output_file>>
    /\ UNCHANGED dbvars

\* original_summary.index: the earnings of the virtual and the selected rows
OriginalEarnings == EarningIndex(df_virtual \o df_real_selected)

\* Lines 791-794: an earning that no row of the result carries is skipped.
SkipEarning ==
    /\ pc = "validate"
    /\ cell[1] <= Len(OriginalEarnings)
    /\ OriginalEarnings[cell[1]] \notin DOMAIN prorate_summary
    /\ log' = Append(log, Warning("earning_not_found", OriginalEarnings[cell[1]], 0))
    /\ cell' = <<cell[1] + 1, 1>>
    /\ UNCHANGED <<pc, ledger, prorate_dict, project_selections, df_deltek,
                   df_virtual, df_real, df_excepted, df_real_selected,
                   df_real_not_selected, df_real_selected_original, df_result,
                   vi, prorate_summary, output_file>>
    /\ UNCHANGED dbvars

\* Lines 797-912: one (earning, date) cell is validated and adjusted.
ReconcileCell ==
    /\ pc = "validate"
    /\ cell[1] <= Len(OriginalEarnings)
    /\ OriginalEarnings[cell[1]] \in DOMAIN prorate_summary
    /\ LET e == OriginalEarnings[cell[1]]
           d == cell[2]
           difference == Difference(df_virtual, df_real_selected,
                                    prorate_summary, e, d)
       IN  \E order \in Candidates(df_result, df_real_selected_original,
                                   e, d, difference) :
               LET out == AdjustCell(df_result, df_real_selected_original,
                                     df_virtual, df_real_selected,
                                     prorate_summary, e, d, order)
               IN  /\ df_result' = out.res
                   /\ log' = log \o out.warnings
    /\ cell' = IF cell[2] < NumDates THEN <<cell[1], cell[2] + 1>>
               ELSE <<cell[1] + 1, 1>>
    /\ UNCHANGED <<pc, ledger, prorate_dict, project_selections, df_deltek,
                   df_virtual, df_real, df_excepted, df_real_selected,
                   df_real_not_selected, df_real_selected_original, vi,
                   prorate_summary, output_file>>
    /\ UNCHANGED dbvars

\* Lines 919-946: the rows that were not selected and the excepted rows are
\* appended, the auxiliary columns dropped and the ledger written.
Emit ==
    /\ pc = "validate"
    /\ cell[1] > Len(OriginalEarnings)
    /\ df_result' = FinalLedger(df_result, df_real_not_selected, df_excepted)
    /\ output_file' = FinalLedger(df_result, df_real_not_selected, df_excepted)
    /\ pc' = "done"
    /\ UNCHANGED <<ledger, prorate_dict, project_selections, df_deltek,
                   df_virtual, df_real, df_excepted, df_real_selected,
                   df_real_not_selected, df_real_selected_original, vi,
                   prorate_summary, cell, log>>
    /\ UNCHANGED dbvars

Next ==
    \/ Classify
    \/ Select
    \/ Allocate
    \/ Merge
    \/ Round
    \/ SkipEarning
    \/ ReconcileCell
    \/ Emit

Spec == Init /\ [][Next]_vars

-----------------------------------------------------------------------------
(* The database update (Update_DataBase_With_BoxFile, lines 1233-1385, and *)
(* reset_database_update_flag, lines 1388-1395).  A session makes NumCalls *)
(* calls, each on a thread of its own (run_update_categories starts a      *)
(* thread per call, fill_deltek calls on the main thread); the calls share *)
(* the flag database_updated and nothing orders their steps.  The          *)
(* redistribution does not run in this specification.                      *)

InitDB ==
    /\ pc = "idle"
    /\ ledger = <<>>
    /\ prorate_dict = <<>>
    /\ project_selections = <<>>
    /\ df_deltek = <<>>
    /\ df_virtual = <<>>
    /\ df_real = <<>>
    /\ df_excepted = <<>>
    /\ df_real_selected = <<>>
    /\ df_real_not_selected = <<>>
    /\ df_real_selected_original = <<>>
    /\ df_result = <<>>
    /\ vi = 1
    /\ prorate_summary = <<>>
    /\ cell = <<1, 1>>
    /\ log = <<>>
    /\ output_file = PreviousOutput
    /\ database_updated = FALSE
    /\ call = [t \in Callers |-> "idle"]
    /\ db_writes = 0
    /\ flag_resets = 0

\* Lines 1244-1249: the test of the flag; a call that finds it set returns.
CheckFlag(t) ==
    /\ call[t] = "idle"
    /\ call' = [call EXCEPT ![t] = IF database_updated THEN "skipped"
                                   ELSE "updating"]
    /\ UNCHANGED <<database_updated, db_writes, flag_resets>>
    /\ UNCHANGED runvars

\* Mutant: a call that raises for a missing code sets the flag all the same.
MissingCode_SetsFlag(t) ==
    /\ call[t] = "updating"
    /\ call' = [call EXCEPT ![t] = "raised"]
    /\ database_updated' = TRUE
    /\ UNCHANGED <<db_writes, flag_resets>>
    /\ UNCHANGED runvars

\* Lines 1277-1281: a code of the database is not in the source file.
MissingCode(t) ==
    /\ call[t] = "updating"
    /\ call' = [call EXCEPT ![t] = "raised"]
    /\ UNCHANGED <<database_updated, db_writes, flag_resets>>
    /\ UNCHANGED runvars

\* Lines 1332-1375: the work on the workbook fails; it is closed without
\* being saved and the exception is raised again.
WriteFails(t) ==
    /\ call[t] = "updating"
    /\ call' = [call EXCEPT ![t] = "raised"]
    /\ UNCHANGED <<database_updated, db_writes, flag_resets>>
    /\ UNCHANGED runvars

\* Lines 1332-1365: the workbook is rewritten and saved.
SaveWorkbook(t) ==
    /\ call[t] = "updating"
    /\ db_writes' = db_writes + 1
    /\ call' = [call EXCEPT ![t] = "saved"]
    /\ UNCHANGED <<database_updated, flag_resets>>
    /\ UNCHANGED runvars

\* Lines 1366-1381: the workbook has been saved and closing it, or the
\* refresh of the formulas (which catches nothing), fails.
RefreshFails(t) ==
    /\ call[t] = "saved"
    /\ call' = [call EXCEPT ![t] = "raised"]
    /\ UNCHANGED <<database_updated, db_writes, flag_resets>>
    /\ UNCHANGED runvars

\* Lines 1381-1385: the formulas are refreshed and the flag is set.
MarkUpdated(t) ==
    /\ call[t] = "saved"
    /\ database_updated' = TRUE
    /\ call' = [call EXCEPT ![t] = "returned"]
    /\ UNCHANGED <<db_writes, flag_resets>>
    /\ UNCHANGED runvars

\* reset_database_update_flag, lines 1388-1395
ResetFlag ==
    /\ flag_resets < MaxResets
    /\ database_updated' = FALSE
    /\ flag_resets' = flag_resets + 1
    /\ UNCHANGED <<call, db_writes>>
    /\ UNCHANGED runvars

NextDB ==
    \/ \E t \in Callers : CheckFlag(t)
    \/ \E t \in Callers : MissingCode(t)
    \/ \E t \in Callers : WriteFails(t)
    \/ \E t \in Callers : SaveWorkbook(t)
    \/ \E t \in Callers : RefreshFails(t)
    \/ \E t \in Callers : MarkUpdated(t)
    \/ ResetFlag

SpecDB == InitDB /\ [][NextDB]_vars

-----------------------------------------------------------------------------
(* What the specification calls the rows of the input ledger *)

Listed(r) == r.Code \in DOMAIN prorate_dict

IsExcepted(r) == r.ProjectID = ReservedProjectID
IsVirtual(r) == ~IsExcepted(r) /\ Listed(r) /\ prorate_dict[r.Code] = 1
IsReal(r) == ~IsExcepted(r) /\ ~IsVirtual(r)
Deselected(r) ==
    r.Code \in DOMAIN project_selections /\ ~project_selections[r.Code]
IsTarget(r) == IsReal(r) /\ ~Deselected(r)
IsRetained(r) == IsReal(r) /\ Deselected(r)

InputVirtual == SelectSeq(ledger, IsVirtual)
InputTarget == SelectSeq(ledger, IsTarget)
InputRetained == SelectSeq(ledger, IsRetained)
InputExcepted == SelectSeq(ledger, IsExcepted)

AllQuarters(df) ==
    \A i \in 1..Len(df) : \A d \in Dates : df[i].h[d] % Quarter = 0

AllListed == \A i \in 1..Len(ledger) : Listed(ledger[i])

Logged(kind) == \E i \in 1..Len(log) : log[i].kind = kind

\* every cell has been validated; df_result holds the reconciled target rows
Reconciled == pc = "validate" /\ cell[1] > Len(OriginalEarnings)

\* the selection has been made and the run has gone on to allocate
Allocating == pc \in {"allocate", "round", "validate", "done"}

-----------------------------------------------------------------------------
(* C1  Conservation: for every (earning, date), the hours of the virtual   *)
(* rows and the target rows of the input sum to the hours of the target    *)
(* rows after reconciliation, within the tolerance.  Stated for ledgers of *)
(* quarter hours whose codes are all listed in the prorate table.          *)
C1_Conservation ==
    (Reconciled /\ AllListed /\ AllQuarters(ledger)) =>
        \A e \in Earnings : \A d \in Dates :
            Abs((EarningSum(InputVirtual, e, d) + EarningSum(InputTarget, e, d))
                - EarningSum(df_result, e, d)) <= Tolerance

-----------------------------------------------------------------------------
(* C2  Non-interference: the retained and the excepted rows of the input   *)
(* are in the output ledger, once each and with the hours they came with;  *)
(* the frames that hold them are not written between selection and output. *)
C2_NonInterference ==
    /\ Allocating =>
        /\ DropAux(df_real_not_selected) = InputRetained
        /\ DropAux(df_excepted) = InputExcepted
    /\ pc = "done" =>
        LET kept == InputRetained \o InputExcepted
            n == Len(output_file)
        IN  /\ n >= Len(kept)
            /\ SubSeq(output_file, n - Len(kept) + 1, n) = kept
            /\ \A i \in 1..(n - Len(kept)) :
                   ~IsExcepted(output_file[i]) /\ ~IsRetained(output_file[i])

\* a run that gave a target row hours of a virtual row while a retained row
\* (C2_Witness) or an excepted row (C2_WitnessExcepted) with hours of its
\* own carried the earning that was redistributed
TargetGained ==
    \E i \in 1..Len(ledger) : \E k \in 1..Len(output_file) :
        /\ IsTarget(ledger[i])
        /\ Identity(output_file[k]) = Identity(ledger[i])
        /\ \E d \in Dates : output_file[k].h[d] > ledger[i].h[d]

C2_Witness ==
    /\ pc = "done"
    /\ TargetGained
    /\ \E i, k \in 1..Len(ledger) :
        /\ IsRetained(ledger[i]) /\ IsVirtual(ledger[k])
        /\ ledger[i].Earning = ledger[k].Earning
        /\ TotalHours(ledger[i]) > 0 /\ TotalHours(ledger[k]) > 0

C2_WitnessExcepted ==
    /\ pc = "done"
    /\ TargetGained
    /\ \E i, k \in 1..Len(ledger) :
        /\ IsExcepted(ledger[i]) /\ IsVirtual(ledger[k])
        /\ ledger[i].Earning = ledger[k].Earning
        /\ TotalHours(ledger[i]) > 0 /\ TotalHours(ledger[k]) > 0

-----------------------------------------------------------------------------
(* C3  Monotonic floor: after reconciliation no target row holds, at any   *)
(* date, less than it held before allocation.  Stated for ledgers of       *)
(* quarter hours whose codes are all listed in the prorate table.          *)
C3_MonotonicFloor ==
    (Reconciled /\ AllListed /\ AllQuarters(ledger)) =>
        \A i \in 1..Len(df_result) : \A d \in Dates :
            df_result[i].h[d] >= KeySum(InputTarget, Identity(df_result[i]), d)

-----------------------------------------------------------------------------
(* C4  Granularity: every hour value of the output ledger is a multiple of *)
(* a quarter hour.                                                         *)
C4_Granularity == pc = "done" => AllQuarters(output_file)

(* C4 as amended: the hours of the reconciled target rows in the output    *)
(* are multiples of a quarter hour; the retained and excepted rows carry   *)
(* their input values, so the whole output is in quarter hours when the    *)
(* input ledger is.                                                        *)
C4_TargetGranularity ==
    pc = "done" =>
        LET targets == Len(output_file) - Len(InputRetained) - Len(InputExcepted)
        IN  /\ AllQuarters(SubSeq(output_file, 1, targets))
            /\ AllQuarters(ledger) => AllQuarters(output_file)

\* an output whose target rows were rounded and adjusted from odd values
C4_Witness ==
    /\ pc = "done"
    /\ ~AllQuarters(InputTarget)
    /\ ~AllQuarters(InputVirtual)
    /\ Len(output_file) > Len(InputRetained) + Len(InputExcepted)

-----------------------------------------------------------------------------
(* C5  A code of the ledger without an entry in the prorate table ends the *)
(* run: nothing is classified and no output is written.                    *)
C5_UnlistedAborts ==
    (pc # "classify" /\ ~AllListed) =>
        pc = "aborted" /\ output_file = PreviousOutput

(* C5 as amended: with a table that lists at least one code, a row whose   *)
(* code is not listed gets the flag 0 and is a real row (an excepted row   *)
(* if it carries the reserved project), and the run goes on; only an empty *)
(* table ends the run, before anything is classified or written.           *)
C5_UnlistedIsReal ==
    pc # "classify" =>
        IF prorate_dict = <<>>
        THEN /\ pc = "aborted"
             /\ output_file = PreviousOutput
             /\ df_virtual = <<>> /\ df_real = <<>> /\ df_excepted = <<>>
        ELSE \A i \in 1..Len(ledger) :
                ~Listed(ledger[i]) =>
                    /\ df_deltek[i].Prorate = IF IsExcepted(ledger[i]) THEN -1 ELSE 0
                    /\ ~IsExcepted(ledger[i]) =>
                           /\ ledger[i] \in RangeOf(DropAux(df_real))
                           /\ ledger[i] \notin RangeOf(DropAux(df_virtual))

\* a finished run in which a row of an unlisted code was a target row and
\* received hours of a virtual row
C5_Witness ==
    /\ pc = "done"
    /\ \E i \in 1..Len(ledger) : \E k \in 1..Len(output_file) :
        /\ ~Listed(ledger[i]) /\ IsTarget(ledger[i])
        /\ Identity(output_file[k]) = Identity(ledger[i])
        /\ \E d \in Dates : output_file[k].h[d] > ledger[i].h[d]

-----------------------------------------------------------------------------
(* C6  The classifier partitions the ledger: every row is in exactly one   *)
(* of the virtual, real and excepted frames, and the frames hold no other  *)
(* row.                                                                    *)
C6_Partition ==
    (pc # "classify" /\ prorate_dict # <<>>) =>
        LET v == RangeOf(DropAux(df_virtual))
            r == RangeOf(DropAux(df_real))
            x == RangeOf(DropAux(df_excepted))
        IN  /\ Len(df_virtual) + Len(df_real) + Len(df_excepted) = Len(ledger)
            /\ v \cup r \cup x = RangeOf(ledger)
            /\ v \cap r = {} /\ v \cap x = {} /\ r \cap x = {}

\* a classification with a row in each of the three frames
C6_Witness ==
    /\ pc = "select"
    /\ Len(df_virtual) > 0 /\ Len(df_real) > 0 /\ Len(df_excepted) > 0

-----------------------------------------------------------------------------
(* C7  The target selector splits the real rows into the selected and the  *)
(* retained rows; a real row is retained exactly when the selection maps   *)
(* its code to false, so a code without a decision is a target.            *)
C7_TargetSelector ==
    (Allocating \/ Logged("no_projects_selected")) =>
        LET sel == RangeOf(DropAux(df_real_selected))
            ret == RangeOf(DropAux(df_real_not_selected))
            real == RangeOf(DropAux(df_real))
        IN  /\ Len(df_real_selected) + Len(df_real_not_selected) = Len(df_real)
            /\ sel \cup ret = real
            /\ sel \cap ret = {}
            /\ \A r \in real :
                   r \in ret <=> /\ r.Code \in DOMAIN project_selections
                                 /\ project_selections[r.Code] = FALSE

\* a selection that deselects one code and says nothing of another
C7_Witness ==
    /\ pc = "allocate"
    /\ Len(df_real_not_selected) > 0
    /\ \E i \in 1..Len(df_real_selected) :
           df_real_selected[i].Code \notin DOMAIN project_selections

-----------------------------------------------------------------------------
(* C8  With no target row (no real row, or every real code deselected) the *)
(* run ends before any allocation or reconciliation and writes nothing:    *)
(* the output file is the one that was there before.                       *)
Cancelled == Logged("cancelled")

NoTargetRows ==
    \/ pc # "classify" /\ prorate_dict # <<>>
         /\ \A i \in 1..Len(ledger) : ~IsReal(ledger[i])
    \/ pc \notin {"classify", "select"} /\ prorate_dict # <<>> /\ ~Cancelled
         /\ \A i \in 1..Len(ledger) : ~IsTarget(ledger[i])

C8_EmptyTargetAborts ==
    NoTargetRows =>
        /\ pc = "aborted"
        /\ Logged("no_real_projects") \/ Logged("no_projects_selected")
        /\ output_file = PreviousOutput
        /\ df_result = <<>> /\ vi = 1 /\ cell = <<1, 1>>
        /\ prorate_summary = <<>>

\* a ledger with hours to redistribute whose real codes were all deselected
C8_Witness ==
    /\ pc = "aborted"
    /\ Logged("no_projects_selected")
    /\ \E i \in 1..Len(ledger) : IsVirtual(ledger[i]) /\ TotalHours(ledger[i]) > 0

-----------------------------------------------------------------------------
(* C9  A negative residual that the rows cannot give back is not fatal:    *)
(* the cell's warning is printed, each candidate row has given back what   *)
(* it received, the loop goes on to the next cell, and a run with such a   *)
(* warning is never aborted and ends with the ledger written.              *)
ResidualWarning(lg, e, d) ==
    \E i \in 1..Len(lg) :
        /\ lg[i].kind \in {"could_not_adjust", "partial_adjustment"}
        /\ lg[i].earning = e /\ lg[i].date = d

SomeResidualWarning ==
    \E e \in Earnings : \E d \in Dates : ResidualWarning(log, e, d)

RECURSIVE SumOver(_, _)
SumOver(order, f) ==
    IF order = <<>> THEN 0 ELSE f[Head(order)] + SumOver(Tail(order), f)

\* the cell the cursor is on has too many hours, and the rows that received
\* hours received less than the excess
Unabsorbable ==
    /\ pc = "validate"
    /\ cell[1] <= Len(OriginalEarnings)
    /\ OriginalEarnings[cell[1]] \in DOMAIN prorate_summary
    /\ LET e == OriginalEarnings[cell[1]]
           d == cell[2]
           difference == Difference(InputVirtual, InputTarget, prorate_summary, e, d)
           diffs == ProrateDiffs(df_result, df_real_selected_original, e, d)
           givers == SelectSeq(RowsWithEarning(df_result, e),
                               LAMBDA i : diffs[i] > Tolerance)
       IN  /\ difference < -Tolerance
           /\ Abs(difference) - SumOver(givers, diffs) > Tolerance

C9_ResidualNotFatal ==
    /\ [](SomeResidualWarning =>
            /\ pc \in {"validate", "done"}
            /\ pc = "done" =>
                /\ cell[1] > Len(OriginalEarnings)
                /\ output_file = df_result
                /\ output_file # PreviousOutput)
    /\ [][Unabsorbable =>
            LET e == OriginalEarnings[cell[1]]
                d == cell[2]
                diffs == ProrateDiffs(df_result, df_real_selected_original, e, d)
            IN  /\ ResidualWarning(log', e, d)
                /\ pc' = "validate"
                /\ cell' # cell
                /\ \A i \in 1..Len(df_result) :
                       df_result'[i].h[d] =
                           IF df_result[i].Earning = e /\ diffs[i] > Tolerance
                           THEN RoundToQuarter(df_result[i].h[d] - diffs[i], 1)
                           ELSE df_result[i].h[d]]_vars

\* a finished run with a warning for a residual that was left in place
C9_Witness == pc = "done" /\ SomeResidualWarning

C9_WitnessPartial == pc = "done" /\ Logged("partial_adjustment")

-----------------------------------------------------------------------------
(* C11  No hour value is negative: the rows of the result hold no negative *)
(* hours at any step of the run (after a full or a partial subtraction as  *)
(* well), and neither does the ledger written.  The ledgers read hold no   *)
(* negative hours.                                                         *)
NonNegative(df) ==
    \A i \in 1..Len(df) : \A d \in Dates : df[i].h[d] >= 0

C11_NonNegative ==
    NonNegative(ledger) =>
        /\ NonNegative(df_result)
        /\ NonNegative(output_file)

\* a cell whose rows hold less after the validation than after the rounding:
\* hours were subtracted, and a row of the cell was brought down to zero
C11_Witness ==
    /\ Reconciled
    /\ \E e \in DOMAIN prorate_summary : \E d \in Dates :
        /\ EarningSum(df_result, e, d) < prorate_summary[e][d]
        /\ \E i \in 1..Len(df_result) :
               /\ df_result[i].Earning = e
               /\ df_result[i].h[d] = 0

-----------------------------------------------------------------------------
(* C12  The ledger written is the reconciled target rows, then the         *)
(* retained rows, then the excepted rows, the last two as they were read   *)
(* and once each; no row of it is a virtual row and no row carries the     *)
(* columns Prorate and Redistribute_Target.                                *)
LedgerColumns == {"Code", "ProjectID", "Earning", "h"}

C12_OutputComposition ==
    /\ [](pc = "done" =>
            /\ \A i \in 1..Len(output_file) :
                   /\ DOMAIN output_file[i] = LedgerColumns
                   /\ ~IsVirtual(output_file[i])
            /\ \A i \in 1..Len(ledger) :
                   (IsRetained(ledger[i]) \/ IsExcepted(ledger[i])) =>
                       Cardinality({k \in 1..Len(output_file) :
                                       output_file[k] = ledger[i]}) = 1)
    /\ [][(pc = "validate" /\ pc' = "done") =>
            /\ Len(df_result) > 0
            /\ \A i \in 1..Len(df_result) :
                   DOMAIN df_result[i] # LedgerColumns
            /\ output_file' =
                   [i \in 1..Len(df_result) |->
                       [c \in LedgerColumns |-> df_result[i][c]]]
                   \o InputRetained \o InputExcepted]_vars

\* a ledger written from target rows that received hours of a virtual row
\* and from retained rows (C12_Witness) or excepted rows
\* (C12_WitnessExcepted)
C12_Witness ==
    /\ pc = "done"
    /\ TargetGained
    /\ Len(InputVirtual) > 0
    /\ Len(InputRetained) > 0

C12_WitnessExcepted ==
    /\ pc = "done"
    /\ TargetGained
    /\ Len(InputVirtual) > 0
    /\ Len(InputExcepted) > 0
    /\ Len(output_file) = Len(ledger) - Len(InputVirtual)

-----------------------------------------------------------------------------
(* C13  Classification is idempotent: the three frames put back into one   *)
(* ledger and classified again with the same table give the same three     *)
(* frames.                                                                 *)
Remerged == DropAux(df_virtual \o df_real \o df_excepted)

Reclassified == WithProrate(prorate_dict, Remerged)

C13_ClassifyIdempotent ==
    (pc # "classify" /\ prorate_dict # <<>>) =>
        LET again == Reclassified IN
        /\ DropAux(WhereProrate(again, 1)) = DropAux(df_virtual)
        /\ DropAux(WhereProrate(again, 0)) = DropAux(df_real)
        /\ DropAux(WhereProrate(again, -1)) = DropAux(df_excepted)
        /\ \A i \in 1..Len(again) : again[i].Prorate \in {-1, 0, 1}

\* a classification with rows in each frame, whose merge is not the ledger
\* in the order it was read
C13_Witness ==
    /\ pc = "select"
    /\ Len(df_virtual) > 0 /\ Len(df_real) > 0 /\ Len(df_excepted) > 0
    /\ Remerged # ledger

-----------------------------------------------------------------------------
(* C14  The warnings of the validation are reported together once the last *)
(* cell has been processed: while a cell is still to be processed no       *)
(* warning has been printed.                                               *)
WarningKinds ==
    {"earning_not_found", "no_positive_prorate_diff", "could_not_adjust",
     "partial_adjustment"}

WarningsOf(lg) == SelectSeq(lg, LAMBDA w : w.kind \in WarningKinds)

CellsRemain == pc = "validate" /\ cell[1] <= Len(OriginalEarnings)

C14_SummaryAtEnd == CellsRemain => WarningsOf(log) = <<>>

(* C14 as amended: a warning is printed in the step that processes its     *)
(* cell and names that cell (its earning, for an earning that is skipped); *)
(* what has been printed stays; the step that ends the validation and      *)
(* writes the ledger prints no warning, and the result is written whatever *)
(* was printed.                                                            *)
C14_WarningsInline ==
    [][/\ Len(log') >= Len(log)
       /\ SubSeq(log', 1, Len(log)) = log
       /\ WarningsOf(log') # WarningsOf(log) =>
              /\ CellsRemain
              /\ pc' = "validate"
              /\ \A k \in (Len(log) + 1)..Len(log') :
                     /\ log'[k].kind \in WarningKinds
                     /\ log'[k].earning = OriginalEarnings[cell[1]]
                     /\ log'[k].date =
                            IF log'[k].kind = "earning_not_found" THEN 0
                            ELSE cell[2]
       /\ (pc = "validate" /\ ~CellsRemain) =>
              /\ log' = log
              /\ pc' = "done"
              /\ output_file' = DropAux(df_result \o df_real_not_selected
                                        \o df_excepted)]_vars

\* a warning has been printed for a cell and another cell is still to be
\* processed
C14_Witness ==
    /\ CellsRemain
    /\ \E i \in 1..Len(log) :
        /\ log[i].kind \in {"could_not_adjust", "partial_adjustment"}
        /\ <<log[i].earning, log[i].date>> # <<OriginalEarnings[cell[1]], cell[2]>>

-----------------------------------------------------------------------------
(* C15  The database is updated at most once in a session: as long as the  *)
(* flag has not been reset, at most one call of                            *)
(* Update_DataBase_With_BoxFile has rewritten the database, however the    *)
(* calls are interleaved.                                                  *)
C15_UpdateAtMostOnce == flag_resets = 0 => db_writes <= 1

-----------------------------------------------------------------------------
(* C16  Repair of a positive residual: when the cell being processed holds *)
(* less than the virtual and target rows held before allocation, by more   *)
(* than the tolerance, the step adds the whole difference to one row, a    *)
(* row with the most hours on that date among the rows of the earning,     *)
(* rounds that value to a quarter and changes no other value.              *)
CurrentEarning == OriginalEarnings[cell[1]]

\* original total minus current total of the cell being processed
CellResidual ==
    (EarningSum(InputVirtual, CurrentEarning, cell[2])
     + EarningSum(InputTarget, CurrentEarning, cell[2]))
    - EarningSum(df_result, CurrentEarning, cell[2])

ProcessingCell == CellsRemain /\ CurrentEarning \in DOMAIN prorate_summary

C16_PositiveRepair ==
    [][(ProcessingCell /\ CellResidual > Tolerance) =>
          \E i \in 1..Len(df_result) :
              /\ df_result[i].Earning = CurrentEarning
              /\ \A j \in 1..Len(df_result) :
                     df_result[j].Earning = CurrentEarning =>
                         df_result[j].h[cell[2]] <= df_result[i].h[cell[2]]
              /\ df_result' =
                     [df_result EXCEPT ![i].h[cell[2]] =
                         RoundToQuarter(df_result[i].h[cell[2]] + CellResidual, 1)]]_vars

\* the validation is over and a cell whose rows hold different hours was
\* given hours
C16_Witness ==
    /\ Reconciled
    /\ \E e \in DOMAIN prorate_summary : \E d \in Dates :
        /\ EarningSum(df_result, e, d) > prorate_summary[e][d]
        /\ \E i, j \in 1..Len(df_result) :
               /\ df_result[i].Earning = e /\ df_result[j].Earning = e
               /\ df_result[i].h[d] # df_result[j].h[d]

-----------------------------------------------------------------------------
(* C17  Repair of a negative residual: when the cell being processed holds *)
(* more than before allocation, the rows of the earning that received      *)
(* hours are visited by decreasing received amount; each gives back the    *)
(* smaller of what it received and what is still to be taken back, and is  *)
(* rounded; the walk stops when nothing is left to take back; a row that   *)
(* received nothing is not changed; and afterwards the cell holds what it  *)
(* held before allocation, within the tolerance.                           *)
Min(a, b) == IF a < b THEN a ELSE b

RECURSIVE GiveBack(_, _, _, _, _)
GiveBack(order, res, d, shortfall, recv) ==
    IF order = <<>> \/ shortfall <= 0 THEN res
    ELSE LET i == Head(order)
             take == Min(recv[i], shortfall)
         IN  GiveBack(Tail(order),
                      [res EXCEPT ![i].h[d] = RoundToQuarter(@ - take, 1)],
                      d, shortfall - take, recv)

\* what the rows of the current earning received on the current date
Received ==
    ProrateDiffs(df_result, df_real_selected_original, CurrentEarning, cell[2])

Givers ==
    SelectSeq(RowsWithEarning(df_result, CurrentEarning),
              LAMBDA i : Received[i] > 0)

\* the step walks the givers in an order of decreasing received amount
NegativeRepairStep ==
    \E order \in SortDesc(Givers, Received) :
        df_result' = GiveBack(order, df_result, cell[2], -CellResidual, Received)

\* after the step the cell holds what it held before allocation
CellRestored ==
    Abs((EarningSum(InputVirtual, CurrentEarning, cell[2])
         + EarningSum(InputTarget, CurrentEarning, cell[2]))
        - EarningSum(df_result', CurrentEarning, cell[2])) <= Tolerance

-----------------------------------------------------------------------------
(* C18  The received amount of a row of the result is its current hours    *)
(* minus the hours, before allocation, of the selected row with the same   *)
(* identity, or minus 0 when no selected row has that identity.            *)
C18_ReceivedByIdentity ==
    (ProcessingCell /\ CellResidual < -Tolerance) =>
        \A i \in 1..Len(df_result) :
            df_result[i].Earning = CurrentEarning =>
                Received[i] =
                    df_result[i].h[cell[2]]
                    - KeySum(df_real_selected_original,
                             Identity(df_result[i]), cell[2])

-----------------------------------------------------------------------------
(* C19  Allocation alone conserves every cell: when every virtual row has  *)
(* been processed and the rows of equal identity merged, and before any    *)
(* value is rounded, the rows of the result hold, for every earning and    *)
(* date, what the virtual and the target rows held before allocation.      *)
(* (The hours of df_result are numerators over WeightDen at this point.)   *)
C19_AllocationConserves ==
    pc = "round" =>
        \A e \in Earnings : \A d \in Dates :
            EarningSum(df_result, e, d) =
                WeightDen(df_real_selected)
                * (EarningSum(InputVirtual, e, d) + EarningSum(InputTarget, e, d))

-----------------------------------------------------------------------------
(* C20  A virtual row of the regular earning gives each target row, on     *)
(* each date, the virtual row's hours of that date times the weight of the *)
(* target row, added to that row's own hours; the other rows of the result *)
(* are not changed.  (Hours of df_result are numerators over WeightDen, so *)
(* the share of row i is the virtual hours times WeightNum.)               *)
RegularRowNext ==
    /\ pc = "allocate"
    /\ vi <= Len(df_virtual)
    /\ IsRegular(df_virtual[vi].Earning, EarningColumnIsText(df_deltek))

C20_RegularOwnEntry ==
    [][RegularRowNext =>
          /\ Len(df_result') = Len(df_result)
          /\ \A i \in 1..Len(df_result) : \A d \in Dates :
                 df_result'[i].h[d] =
                     df_result[i].h[d]
                     + (IF i <= Len(df_real_selected)
                        THEN df_virtual[vi].h[d] * WeightNum(df_real_selected, i)
                        ELSE 0)]_vars

-----------------------------------------------------------------------------
(* C21  Processing a virtual row of the regular earning creates no row:    *)
(* the set of the identities of the rows of the result is the same before  *)
(* and after the step, and where the step takes the branch of line 734 the *)
(* result has the same rows, in the same places, with only hours changed.  *)
Identities(df) == {Identity(df[i]) : i \in 1..Len(df)}

\* the next virtual row carries the regular earning, whatever the type the
\* Earning column was read with
RegularEarningNext ==
    /\ pc = "allocate"
    /\ vi <= Len(df_virtual)
    /\ df_virtual[vi].Earning = RegularEarning

C21_WitnessNumeric ==
    /\ pc = "allocate"
    /\ vi > 1
    /\ df_virtual[vi - 1].Earning = RegularEarning
    /\ TotalHours(df_virtual[vi - 1]) > 0
    /\ ~EarningColumnIsText(df_deltek)

-----------------------------------------------------------------------------
(* C22  Processing a virtual row of an earning E other than the regular    *)
(* one: for every target row, the rows of the result that carry its Code   *)
(* and project identifiers and the earning E hold, once merged, the        *)
(* virtual hours times the weight of that target row more than before, on  *)
(* every date; no row that was in the result is changed.  (Hours of        *)
(* df_result are numerators over WeightDen, so a share is the virtual      *)
(* hours times WeightNum.)                                                 *)
OtherEarningNext ==
    /\ pc = "allocate"
    /\ vi <= Len(df_virtual)
    /\ df_virtual[vi].Earning # RegularEarning

\* the identity the share of target row i is written under
ShareKey(i) ==
    <<df_real_selected[i].Code, df_real_selected[i].ProjectID,
      df_virtual[vi].Earning>>

\* the target rows that carry the Code and project identifiers of row i
SameProject(i) ==
    SelectSeq([j \in 1..Len(df_real_selected) |-> j],
              LAMBDA j : /\ df_real_selected[j].Code = df_real_selected[i].Code
                         /\ df_real_selected[j].ProjectID
                                = df_real_selected[i].ProjectID)

\* the merge gives each identity one row holding the sum of its rows
MergedAsSummed ==
    (pc = "allocate" /\ pc' = "round") =>
        \A k \in 1..Len(df_result) :
            \E m \in 1..Len(df_result') :
                /\ Identity(df_result'[m]) = Identity(df_result[k])
                /\ \A d \in Dates :
                       df_result'[m].h[d]
                           = KeySum(df_result, Identity(df_result[k]), d)

ExistingRowsKept ==
    /\ Len(df_result') >= Len(df_result)
    /\ SubSeq(df_result', 1, Len(df_result)) = df_result

C22_ShareOfOwnRow ==
    [][/\ OtherEarningNext =>
              /\ \A i \in 1..Len(df_real_selected) : \A d \in Dates :
                     KeySum(df_result', ShareKey(i), d) =
                         KeySum(df_result, ShareKey(i), d)
                         + df_virtual[vi].h[d] * WeightNum(df_real_selected, i)
              /\ ExistingRowsKept
       /\ MergedAsSummed]_vars

(* C22 as amended: the rows of a Code and project with the earning E gain  *)
(* the shares of all the target rows that carry that Code and project (one *)
(* share when a single target row does); no row that was in the result is  *)
(* changed, and no identity of another earning gains or loses hours.       *)
C22_SharesOfProject ==
    [][/\ OtherEarningNext =>
              /\ \A i \in 1..Len(df_real_selected) : \A d \in Dates :
                     KeySum(df_result', ShareKey(i), d) =
                         KeySum(df_result, ShareKey(i), d)
                         + df_virtual[vi].h[d]
                           * SumOver(SameProject(i),
                                     [j \in 1..Len(df_real_selected) |->
                                         WeightNum(df_real_selected, j)])
              /\ ExistingRowsKept
              /\ \A n \in 1..Len(AllKeys) : \A d \in Dates :
                     AllKeys[n][3] # df_virtual[vi].Earning =>
                         KeySum(df_result', AllKeys[n], d)
                             = KeySum(df_result, AllKeys[n], d)
       /\ MergedAsSummed]_vars

\* a virtual row of a quarter hour of the earning V has been shared between
\* two target rows of equal weight that had no hours of that earning: the
\* merged result holds two rows of V with half of it each
C22_Witness ==
    /\ pc = "round"
    /\ Len(df_virtual) = 1
    /\ df_virtual[1].Earning # RegularEarning
    /\ Len(df_real_selected) = 2
    /\ TotalHours(df_real_selected[1]) = TotalHours(df_real_selected[2])
    /\ TotalHours(df_real_selected[1]) > 0
    /\ \A i \in 1..2 : df_real_selected[i].Earning = RegularEarning
    /\ Len(df_result) = 4
    /\ \E d \in Dates :
        /\ df_virtual[1].h[d] = Quarter
        /\ \A i \in 1..2 : \E m \in 1..4 :
               /\ df_result[m].Code = df_real_selected[i].Code
               /\ df_result[m].Earning = df_virtual[1].Earning
               /\ 2 * df_result[m].h[d] = WeightDen(df_real_selected) * Quarter

-----------------------------------------------------------------------------
(* C23  The weight of a target row is its total hours over all the dates   *)
(* divided by the sum of the totals of the target rows, and 1/N for each   *)
(* of the N target rows when that sum is zero; no weight is negative and   *)
(* the weights sum to 1, so that the shares a virtual row gives on a date, *)
(* before any rounding, sum to its hours of that date.  (A weight is       *)
(* WeightNum / WeightDen.)                                                 *)
TargetIndices == [j \in 1..Len(df_real_selected) |-> j]

TargetTotals == [j \in 1..Len(df_real_selected) |-> TotalHours(df_real_selected[j])]

TargetWeights ==
    [j \in 1..Len(df_real_selected) |-> WeightNum(df_real_selected, j)]

\* the hours of all the rows of df on date d
RECURSIVE FrameSum(_, _)
FrameSum(df, d) == IF df = <<>> THEN 0 ELSE Head(df).h[d] + FrameSum(Tail(df), d)

C23_Weights ==
    /\ [](pc = "allocate" =>
            LET sum == SumOver(TargetIndices, TargetTotals)
                den == WeightDen(df_real_selected)
            IN  /\ den > 0
                /\ \A j \in 1..Len(df_real_selected) :
                       /\ TargetWeights[j] >= 0
                       /\ IF sum = 0
                          THEN TargetWeights[j] = 1 /\ den = Len(df_real_selected)
                          ELSE TargetWeights[j] = TargetTotals[j] /\ den = sum
                /\ SumOver(TargetIndices, TargetWeights) = den)
    /\ [][(pc = "allocate" /\ vi <= Len(df_virtual)) =>
            \A d \in Dates :
                FrameSum(df_result', d) - FrameSum(df_result, d)
                    = df_virtual[vi].h[d] * WeightDen(df_real_selected)]_vars

\* a virtual row with hours has been shared between target rows of
\* different totals, one of them with hours on both dates taken together
C23_Witness ==
    /\ pc = "allocate"
    /\ vi > 1
    /\ TotalHours(df_virtual[vi - 1]) > 0
    /\ \E i, j \in 1..Len(df_real_selected) :
        /\ TotalHours(df_real_selected[i]) > TotalHours(df_real_selected[j])
        /\ TotalHours(df_real_selected[j]) > 0
        /\ df_real_selected[j].h[1] = 0

\* a virtual row with hours has been shared between two target rows that
\* hold no hours
C23_WitnessEqual ==
    /\ pc = "allocate"
    /\ vi > 1
    /\ TotalHours(df_virtual[vi - 1]) > 0
    /\ Len(df_real_selected) = 2
    /\ TotalSum(df_real_selected) = 0
    /\ FrameSum(df_result, 1) + FrameSum(df_result, 2)
           = 2 * TotalHours(df_virtual[vi - 1])

-----------------------------------------------------------------------------
(* C24  After the merge no two rows of the result have the same identity,  *)
(* the identities are those the result had before the merge, and each row  *)
(* holds, on every date, the sum of the hours of the rows that had its     *)
(* identity before the merge.                                              *)
UniqueIdentities(df) ==
    \A i, j \in 1..Len(df) : Identity(df[i]) = Identity(df[j]) => i = j

\* the rows of df with the identity id, as indices
RowsWithIdentity(df, id) ==
    SelectSeq([k \in 1..Len(df) |-> k], LAMBDA k : Identity(df[k]) = id)

C24_MergeSums ==
    /\ [](pc \in {"round", "validate"} => UniqueIdentities(df_result))
    /\ [][(pc = "allocate" /\ pc' = "round") =>
            /\ UniqueIdentities(df_result')
            /\ Identities(df_result') = Identities(df_result)
            /\ \A m \in 1..Len(df_result') : \A d \in Dates :
                   df_result'[m].h[d] =
                       SumOver(RowsWithIdentity(df_result, Identity(df_result'[m])),
                               [k \in 1..Len(df_result) |-> df_result[k].h[d]])]_vars

\* the merge is done and a row of an earning other than the regular one
\* holds the hours of a target row together with the share that a virtual
\* row of that earning gave it: two rows were merged into it
C24_Witness ==
    /\ pc = "round"
    /\ \E m \in 1..Len(df_result) : \E i \in 1..Len(df_real_selected) :
        /\ Identity(df_result[m]) = Identity(df_real_selected[i])
        /\ df_result[m].Earning # RegularEarning
        /\ TotalHours(df_real_selected[i]) > 0
        /\ TotalHours(df_result[m])
               > WeightDen(df_real_selected) * TotalHours(df_real_selected[i])

-----------------------------------------------------------------------------
(* C25  The cells of the validation are independent: the step that repairs *)
(* the cell (earning e, date d) writes only the hours of date d of the     *)
(* rows of earning e, and what it writes is what the repair gives when it  *)
(* is applied to the result as it was rounded, before any cell was         *)
(* repaired.  So the ledger does not depend on the order in which the      *)
(* cells are taken (the choice between rows with equal sort keys apart).   *)
RECURSIVE AllocateAll(_, _, _, _, _)
AllocateAll(res, sel, virt, k, textColumn) ==
    IF k > Len(virt) THEN res
    ELSE AllocateAll(AllocateRow(res, sel, virt[k], textColumn),
                     sel, virt, k + 1, textColumn)

\* the result as lines 722-774 leave it, before the validation
RoundedResult ==
    LET den == WeightDen(df_real_selected) IN
    RoundRows(GroupBySum(AllocateAll(ScaleRows(df_real_selected, den),
                                     df_real_selected, df_virtual, 1,
                                     EarningColumnIsText(df_deltek))),
              den)

C25_Witness ==
    /\ Reconciled
    /\ \E n \in 1..Len(OriginalEarnings) : \E d \in Dates :
        LET e == OriginalEarnings[n] IN
        /\ e \in DOMAIN prorate_summary
        /\ EarningSum(df_result, e, d) # prorate_summary[e][d]
        /\ \E n1, n2 \in 1..Len(OriginalEarnings) : \E d1, d2 \in Dates :
            /\ n1 < n \/ (n1 = n /\ d1 < d)
            /\ n2 > n \/ (n2 = n /\ d2 > d)
            /\ EarningSum(df_result, OriginalEarnings[n1], d1) > 0
            /\ EarningSum(df_result, OriginalEarnings[n2], d2) > 0

-----------------------------------------------------------------------------
(* C26  A row with the reserved project identifier is an excepted row      *)
(* whatever the flag of its code in the prorate table, the flag 1          *)
(* included: it is not among the virtual rows whose hours are shared out,  *)
(* no row of the result carries the reserved project, the row is kept as   *)
(* it was read, and its hours are in neither of the totals the validation  *)
(* compares for a cell.                                                    *)
Reserved(df) == SelectSeq(df, LAMBDA r : r.ProjectID = ReservedProjectID)

\* the total of the cell before the redistribution, as the validation
\* takes it
OriginalSide(e, d) ==
    Difference(df_virtual, df_real_selected, prorate_summary, e, d)
    + prorate_summary[e][d]

C26_ExceptedApart ==
    (pc # "classify" /\ prorate_dict # <<>>) =>
        /\ \A i \in 1..Len(ledger) :
               ledger[i].ProjectID = ReservedProjectID =>
                   /\ df_deltek[i].Prorate = -1
                   /\ ledger[i] \in RangeOf(DropAux(df_excepted))
        /\ DropAux(df_excepted) = Reserved(ledger)
        /\ Reserved(df_virtual) = <<>>
        /\ Reserved(df_real) = <<>>
        /\ Reserved(df_real_selected) = <<>>
        /\ pc # "done" => Reserved(df_result) = <<>>
        /\ pc = "done" =>
               Reserved(output_file) = Reserved(ledger)
        /\ pc = "validate" =>
               /\ prorate_summary = Summary(RoundedResult)
               /\ \A e \in DOMAIN prorate_summary : \A d \in Dates :
                      OriginalSide(e, d) =
                          EarningSum(ledger, e, d)
                          - EarningSum(Reserved(ledger), e, d)
                          - EarningSum(InputRetained, e, d)

\* a finished run in which a row of the reserved project, of a code that
\* the table prorates, held hours of the earning of a virtual row whose
\* hours went to a target row
C26_Witness ==
    /\ pc = "done"
    /\ TargetGained
    /\ \E i, k \in 1..Len(ledger) :
        /\ ledger[i].ProjectID = ReservedProjectID
        /\ Listed(ledger[i]) /\ prorate_dict[ledger[i].Code] = 1
        /\ TotalHours(ledger[i]) > 0
        /\ IsVirtual(ledger[k])
        /\ ledger[k].Earning = ledger[i].Earning
        /\ TotalHours(ledger[k]) > 0

-----------------------------------------------------------------------------
(* C27  The selected rows as they were before allocation (the snapshot and *)
(* the frame the weights are computed from) are not written by the         *)
(* allocation or the validation; each virtual row is shared out with the   *)
(* weights of those rows; and the merged result is the same for every      *)
(* order in which the virtual rows could be processed.                     *)
RECURSIVE AllocateInOrder(_, _, _, _, _, _)
AllocateInOrder(res, sel, virt, p, k, textColumn) ==
    IF k > Len(virt) THEN res
    ELSE AllocateInOrder(AllocateRow(res, sel, virt[p[k]], textColumn),
                         sel, virt, p, k + 1, textColumn)

\* the merged result when the virtual rows are processed in the order p
MergedInOrder(p) ==
    GroupBySum(AllocateInOrder(ScaleRows(df_real_selected_original,
                                         WeightDen(df_real_selected_original)),
                               df_real_selected_original, df_virtual, p, 1,
                               EarningColumnIsText(df_deltek)))

C27_SnapshotFixed ==
    /\ [](Allocating =>
            /\ DropAux(df_real_selected_original) = InputTarget
            /\ df_real_selected = df_real_selected_original)
    /\ [][(pc \in {"allocate", "round", "validate"}) =>
            /\ df_real_selected_original' = df_real_selected_original
            /\ df_real_selected' = df_real_selected]_vars
    /\ [][(pc = "allocate" /\ vi <= Len(df_virtual)) =>
            df_result' = AllocateRow(df_result, df_real_selected_original,
                                     df_virtual[vi],
                                     EarningColumnIsText(df_deltek))]_vars
    /\ [](pc = "round" =>
            \A p \in Permutations(1..Len(df_virtual)) :
                MergedInOrder(p) = df_result)

\* the merge is done; two virtual rows with hours were processed, one of
\* the regular earning and one of another, for target rows of different
\* weights
C27_Witness ==
    /\ pc = "round"
    /\ Len(df_virtual) = 2
    /\ TotalHours(df_virtual[1]) > 0 /\ TotalHours(df_virtual[2]) > 0
    /\ IsRegular(df_virtual[1].Earning, EarningColumnIsText(df_deltek))
    /\ df_virtual[2].Earning # RegularEarning
    /\ df_result # ScaleRows(df_real_selected_original,
                             WeightDen(df_real_selected_original))

-----------------------------------------------------------------------------
(* C28  Every cell left unbalanced is reported: when the validation is     *)
(* over, a cell (earning, date) whose rows of the result hold a total that *)
(* differs by more than the tolerance from what the virtual and the target *)
(* rows held before allocation has a warning in the log, for that cell or  *)
(* for its earning when the earning was skipped.                           *)
Unbalanced(e, d) ==
    Abs((EarningSum(InputVirtual, e, d) + EarningSum(InputTarget, e, d))
        - EarningSum(df_result, e, d)) > Tolerance

Reported(e, d) ==
    \E k \in 1..Len(log) :
        /\ log[k].kind \in WarningKinds
        /\ log[k].earning = e
        /\ log[k].date = d \/ log[k].kind = "earning_not_found"

C28_UnbalancedReported ==
    Reconciled =>
        \A e \in Earnings : \A d \in Dates :
            Unbalanced(e, d) => Reported(e, d)

-----------------------------------------------------------------------------
(* C29  Every earning carried by a virtual row or by a selected row before *)
(* allocation is carried by a row of the result after allocation, so that  *)
(* the validation skips no earning.                                        *)
C29_EarningsPresent ==
    /\ pc \in {"round", "validate"} =>
           \A e \in RangeOf(OriginalEarnings) :
               \E i \in 1..Len(df_result) : df_result[i].Earning = e
    /\ ~Logged("earning_not_found")

-----------------------------------------------------------------------------
(* C30  The flag database_updated is true only after an update has run to  *)
(* completion: it is set only by the step that ends a call whose workbook  *)
(* was saved; a call that raises (a missing code, a failure on the         *)
(* workbook) does not write it; a call that tests it while it is false,    *)
(* after a call that raised or after reset_database_update_flag as well,   *)
(* goes on to update, and a call that finds it true returns at once.       *)
Completed(t) == call[t] = "returned"

Raises(t) == call[t] # "raised" /\ call'[t] = "raised"

Enters(t) == call[t] = "idle" /\ call'[t] # "idle"

C30_FlagAfterCompletion ==
    /\ [](database_updated => \E t \in Callers : Completed(t))
    /\ [][/\ (database_updated' /\ ~database_updated) =>
                 \E t \in Callers : call[t] = "saved" /\ call'[t] = "returned"
          /\ \A t \in Callers :
                 /\ Raises(t) => database_updated' = database_updated
                 /\ Enters(t) =>
                        call'[t] = IF database_updated THEN "skipped"
                                   ELSE "updating"
          /\ flag_resets' # flag_resets => ~database_updated']_vars

\* one call raised, another ran to completion, the flag was reset, and a
\* third call, finding the flag false, is updating
C30_Witness ==
    /\ ~database_updated
    /\ flag_resets = 1
    /\ db_writes = 1
    /\ \E t1, t2, t3 \in Callers :
        /\ call[t1] = "raised"
        /\ Completed(t2)
        /\ call[t3] = "updating"

\* two calls raised, one of them after its workbook was saved, and the flag
\* is false with no reset
C30_WitnessRaised ==
    /\ ~database_updated
    /\ flag_resets = 0
    /\ db_writes = 1
    /\ \E t1, t2, t3 \in Callers :
        /\ t1 # t2
        /\ call[t1] = "raised" /\ call[t2] = "raised"
        /\ call[t3] = "updating"

=============================================================================
